---- MODULE Spec2Model ----
(***************************************************************************)
(* Wallet challenge/response authentication, the in-memory session store   *)
(* (AuthManager), the outbound credential of the backend client            *)
(* (TuskyApiClient) and the key-management tools that are gated on them.   *)
(*                                                                         *)
(* A tool invocation is asynchronous: its synchronous prefix (validation,  *)
(* gate, dispatch of the HTTP request) is one step, the continuation that  *)
(* runs when the backend answers is another, and for verify-challenge the  *)
(* continuation of the tool after the client method returned is a third.   *)
(***************************************************************************)
EXTENDS Integers, Sequences, FiniteSets, TLC

(***************************************************************************)
(* Bounds of the model.                                                    *)
(***************************************************************************)
MaxTime == 2
MaxCalls == 2
\* milliseconds per instant of the clock
TickMs == 500

(***************************************************************************)
(* Program constants.                                                      *)
(***************************************************************************)
HexLen == 40
\* milliseconds per second
MsPerSecond == 1000

(***************************************************************************)
(* JavaScript values that reach the tools as arguments.  A value is a      *)
(* string (a sequence of characters), undefined, or a number; numbers are  *)
(* kept in halves so that a non-integer can be written.                    *)
(***************************************************************************)
Str(cs) == [type |-> "string", chars |-> cs, halves |-> 0]
Undefined == [type |-> "undefined", chars |-> <<>>, halves |-> 0]
Num(h) == [type |-> "number", chars |-> <<>>, halves |-> h]

RECURSIVE Rep(_, _)
Rep(c, n) == IF n = 0 THEN <<>> ELSE <<c>> \o Rep(c, n - 1)

\* !v for the values above: undefined, the empty string, 0 and NaN are falsy.
Falsy(v) ==
    \/ v.type = "undefined"
    \/ v.type = "string" /\ v.chars = <<>>
    \/ v.type = "number" /\ v.halves = 0

WhiteSpace == {" ", "\t", "\n"}

\* v.trim() === "" for a string v.
TrimIsEmpty(v) == \A i \in 1..Len(v.chars) : v.chars[i] \in WhiteSpace

HexDigits == {"0", "1", "2", "3", "4", "5", "6", "7", "8", "9",
              "a", "b", "c", "d", "e", "f",
              "A", "B", "C", "D", "E", "F"}

\* The regular expression of isValidWalletAddress: the i flag makes the
\* literal x of the prefix match X as well; $ matches only at the end.
RegexTest(cs) ==
    /\ Len(cs) = 2 + HexLen
    /\ cs[1] = "0"
    /\ cs[2] \in {"x", "X"}
    /\ \A i \in 3..(2 + HexLen) : cs[i] \in HexDigits

isValidWalletAddress(address) ==
    IF Falsy(address) \/ address.type # "string"
    THEN FALSE
    ELSE RegexTest(address.chars)

(***************************************************************************)
(* The wallet addresses the tools are called with.                         *)
(***************************************************************************)
WalletIds == {"lower", "upper", "prefixX", "short", "long", "nonhex",
              "newline", "word", "empty", "missing", "number"}

Wallets ==
    [id \in WalletIds |->
        CASE id = "lower" -> Str(<<"0", "x">> \o Rep("1", HexLen))
          [] id = "upper" -> Str(<<"0", "x">> \o Rep("a", HexLen - 1) \o <<"F">>)
          [] id = "prefixX" -> Str(<<"0", "X">> \o Rep("1", HexLen))
          [] id = "short" -> Str(<<"0", "x">> \o Rep("1", HexLen - 1))
          [] id = "long" -> Str(<<"0", "x">> \o Rep("1", HexLen + 1))
          [] id = "nonhex" -> Str(<<"0", "x">> \o Rep("1", HexLen - 1) \o <<"g">>)
          [] id = "newline" -> Str(<<"0", "x">> \o Rep("1", HexLen) \o <<"\n">>)
          [] id = "word" -> Str(<<"i", "n", "v", "a", "l", "i", "d">>)
          [] id = "empty" -> Str(<<>>)
          [] id = "missing" -> Undefined
          [] OTHER -> Num(2)]

WalletValue(id) == Wallets[id]

(***************************************************************************)
(* Other textual arguments (signature, nonce, key name, key id).           *)
(***************************************************************************)
TextIds == {"missing", "empty", "blank", "text", "number"}

TextValue(id) ==
    CASE id = "missing" -> Undefined
      [] id = "empty" -> Str(<<>>)
      [] id = "blank" -> Str(<<" ", "\t">>)
      [] id = "text" -> Str(<<"a", "b", "c">>)
      [] OTHER -> Num(10)

\* expiresInDays: absent, -5, 0, 0.5, 1, and the text "abc" in place of a
\* number
DaysValues == {Undefined, Num(-10), Num(0), Num(1), Num(2), Str(<<"a", "b", "c">>)}

NoArgs ==
    [walletAddress |-> "missing", signature |-> "missing", nonce |-> "missing",
     name |-> "missing", expiresInDays |-> Undefined, keyId |-> "missing",
     id |-> "missing", permanent |-> "missing", confirmed |-> "missing", key |-> "missing"]

(***************************************************************************)
(* Tokens and expiry stamps.  expiresAt is an optional ISO date string:    *)
(* absent, the empty string, a string Date cannot parse (its getTime() is  *)
(* NaN), or the stamp of instant t.                                        *)
(***************************************************************************)
Tokens == {"tsk_1", "tsk_2"}
NullToken == "null"

ExpAbsent == [kind |-> "absent", t |-> 0]
ExpEmpty == [kind |-> "empty", t |-> 0]
ExpInvalid == [kind |-> "invalid", t |-> 0]
ExpAt(t) == [kind |-> "iso", t |-> t]

Instants == 0..MaxTime
Expiries == {ExpAbsent, ExpEmpty, ExpInvalid} \cup {ExpAt(t) : t \in Instants}

\* ApiKeyInfo | null
NullKey == [isNull |-> TRUE, token |-> "", expiresAt |-> ExpAbsent]
KeyInfo(token, expiresAt) == [isNull |-> FALSE, token |-> token, expiresAt |-> expiresAt]

(***************************************************************************)
(* Result envelopes {success, error, message, data}.  threw marks an       *)
(* invocation that ended with an exception instead of an envelope.         *)
(***************************************************************************)
\* the sessions the backend grants: tsk_1 expiring at some instant, tsk_2
\* without expiry
Grants == {KeyInfo("tsk_1", ExpAt(t)) : t \in Instants} \cup {KeyInfo("tsk_2", ExpAbsent)}

\* a number of seconds as a JS value: no such property, null, NaN or n
NoSeconds == [kind |-> "none", n |-> 0]
NullSeconds == [kind |-> "null", n |-> 0]
NaNSeconds == [kind |-> "NaN", n |-> 0]
Seconds(n) == [kind |-> "number", n |-> n]

NoData ==
    [kind |-> "none", token |-> "", expiresAt |-> ExpAbsent, expiresIn |-> NoSeconds,
     timestamp |-> 0]
TokenData(token, expiresAt) == [NoData EXCEPT !.kind = "session", !.token = token, !.expiresAt = expiresAt]
Payload(kind) == [NoData EXCEPT !.kind = kind]
\* {expiresIn, timestamp, nonce: null}
StatusData(expiresIn, timestamp) ==
    [NoData EXCEPT !.kind = "status", !.expiresIn = expiresIn, !.timestamp = timestamp]

Envelope(success, error, message, data) ==
    [threw |-> FALSE, success |-> success, error |-> error, message |-> message, data |-> data]
Failure(error, message) == Envelope(FALSE, error, message, NoData)
Thrown(message) ==
    [threw |-> TRUE, success |-> FALSE, error |-> "TypeError", message |-> message, data |-> NoData]
NoEnvelope == Envelope(FALSE, "", "", NoData)

VARIABLES
    apiKey,         \* AuthManager.apiKey
    apiToken,       \* TuskyApiClient.apiToken
    authorization,  \* defaults.headers.common['authorization'] of the axios instance
    envApiKey,      \* process.env.TUSKY_API_KEY ("" when not configured)
    now,            \* the clock read by new Date()
    calls,          \* tool invocations waiting for the backend or for their continuation
    last            \* what the most recent step did (observation of calls and returns)

vars == <<apiKey, apiToken, authorization, envApiKey, now, calls, last>>

NoHeader == [scheme |-> "none", credential |-> ""]
Bearer(token) == [scheme |-> "Bearer", credential |-> token]

(***************************************************************************)
(* TuskyApiClient: the token slot and the default authorization header.    *)
(***************************************************************************)
\* the header the constructor leaves, and the one clearAuthToken restores
StaticHeader(env) == IF env # "" THEN Bearer(env) ELSE NoHeader

setAuthToken(token) ==
    /\ apiToken' = token
    /\ authorization' = Bearer(token)

\* a variant that does not put the static key back
clearAuthToken_dropsStatic ==
    /\ apiToken' = NullToken
    /\ authorization' = NoHeader

clearAuthToken ==
    /\ apiToken' = NullToken
    /\ authorization' = StaticHeader(envApiKey)

getAuthToken == apiToken

(***************************************************************************)
(* AuthManager: the session store.                                         *)
(***************************************************************************)

getApiTokenOf(key) == IF key.isNull \/ key.token = "" THEN NullToken ELSE key.token

\* a variant that hands out the token only while the session is valid
getApiToken_enforcesValidity ==
    IF ~apiKey.isNull /\ apiKey.expiresAt.kind = "iso" /\ apiKey.expiresAt.t <= now
    THEN NullToken
    ELSE getApiTokenOf(apiKey)

getApiToken == getApiTokenOf(apiKey)

\* a variant that keeps a record that is already held
setApiKey_keepsHeld(keyInfo) ==
    /\ apiKey' = IF apiKey.isNull THEN keyInfo ELSE apiKey
    /\ IF ~keyInfo.isNull /\ keyInfo.token # ""
       THEN setAuthToken(keyInfo.token)
       ELSE clearAuthToken

setApiKey(keyInfo) ==
    /\ apiKey' = keyInfo
    /\ IF ~keyInfo.isNull /\ keyInfo.token # ""
       THEN setAuthToken(keyInfo.token)
       ELSE clearAuthToken

\* a variant that forgets the record and leaves the client as it is
clearApiKey_storeOnly ==
    /\ apiKey' = NullKey
    /\ UNCHANGED <<apiToken, authorization>>

clearApiKey ==
    /\ apiKey' = NullKey
    /\ clearAuthToken

\* a variant with now > expiresAt
NowReached_strictlyAfter(expiresAt, t) == expiresAt.kind = "iso" /\ t > expiresAt.t

\* new Date(expiresAt).getTime() <= new Date().getTime(); a comparison with
\* NaN is false
NowReached(expiresAt, t) == expiresAt.kind = "iso" /\ t >= expiresAt.t

\* if (this.apiKey.expiresAt): absent and "" are falsy
ExpiresAtTruthy(expiresAt) == expiresAt.kind \in {"invalid", "iso"}

\* a variant that never looks at expiresAt
isApiKeyValidAt_ignoresExpiry(key, t) == ~(key.isNull \/ key.token = "")

isApiKeyValidAt(key, t) ==
    IF key.isNull \/ key.token = ""
    THEN FALSE
    ELSE IF ExpiresAtTruthy(key.expiresAt) /\ NowReached(key.expiresAt, t)
         THEN FALSE
         ELSE TRUE

isApiKeyValid == isApiKeyValidAt(apiKey, now)

\* a variant that looks at the token only
CarriesToken_ignoresSuccess(response) == response.data.token # ""

\* the condition under which a verify response installs a session
CarriesToken(response) == response.success /\ response.data.token # ""

\* a variant that keeps a session that is already held
storeAuthFromVerifyResponse_keepsPrior(response) ==
    IF ~CarriesToken(response) \/ ~apiKey.isNull
    THEN UNCHANGED <<apiKey, apiToken, authorization>>
    ELSE setApiKey(KeyInfo(response.data.token, response.data.expiresAt))

\* the state change of storeAuthFromVerifyResponse (its return value is
\* CarriesToken(response))
storeAuthFromVerifyResponse(response) ==
    IF ~CarriesToken(response)
    THEN UNCHANGED <<apiKey, apiToken, authorization>>
    ELSE setApiKey(KeyInfo(response.data.token, response.data.expiresAt))

(***************************************************************************)
(* The synchronous prefix of each tool: either it returns at once (an      *)
(* envelope, or an exception), or it goes on to call the backend client.   *)
(***************************************************************************)
Proceed == [proceed |-> TRUE, result |-> NoEnvelope]
Return(env) == [proceed |-> FALSE, result |-> env]

\* !v || v.trim() === "" : "required" when the test is true, "throws" when
\* v is truthy but has no trim method, "ok" otherwise
RequiredTest(v) ==
    IF Falsy(v) THEN "required"
    ELSE IF v.type # "string" THEN "throws"
    ELSE IF TrimIsEmpty(v) THEN "required"
    ELSE "ok"

\* if (!apiClient.getAuthToken())
AuthTokenMissing == getAuthToken = NullToken \/ getAuthToken = ""

createChallengePrefix(args) ==
    IF ~isValidWalletAddress(WalletValue(args.walletAddress))
    THEN Return(Failure("validation_error", "Invalid wallet address format"))
    ELSE Proceed

\* a variant that looks at the signature before the wallet address
verifyChallengePrefix_signatureFirst(args) ==
    IF RequiredTest(TextValue(args.signature)) = "required"
    THEN Return(Failure("validation_error", "Signature is required"))
    ELSE IF RequiredTest(TextValue(args.signature)) = "throws"
    THEN Return(Thrown("signature.trim is not a function"))
    ELSE IF ~isValidWalletAddress(WalletValue(args.walletAddress))
    THEN Return(Failure("validation_error", "Invalid wallet address format"))
    ELSE IF RequiredTest(TextValue(args.nonce)) = "required"
    THEN Return(Failure("validation_error", "Nonce is required"))
    ELSE IF RequiredTest(TextValue(args.nonce)) = "throws"
    THEN Return(Thrown("nonce.trim is not a function"))
    ELSE Proceed

verifyChallengePrefix(args) ==
    IF ~isValidWalletAddress(WalletValue(args.walletAddress))
    THEN Return(Failure("validation_error", "Invalid wallet address format"))
    ELSE IF RequiredTest(TextValue(args.signature)) = "required"
    THEN Return(Failure("validation_error", "Signature is required"))
    ELSE IF RequiredTest(TextValue(args.signature)) = "throws"
    THEN Return(Thrown("signature.trim is not a function"))
    ELSE IF RequiredTest(TextValue(args.nonce)) = "required"
    THEN Return(Failure("validation_error", "Nonce is required"))
    ELSE IF RequiredTest(TextValue(args.nonce)) = "throws"
    THEN Return(Thrown("nonce.trim is not a function"))
    ELSE Proceed

getApiKeysPrefix(args) ==
    IF AuthTokenMissing
    THEN Return(Failure("authentication_required",
                        "Authentication required to retrieve API keys. Please authenticate first using verify-challenge."))
    ELSE Proceed

\* a variant of the test that lets 0 through
ExpirationRejected_negativeOnly(days) ==
    days.type = "number" /\ days.halves < 0

\* a variant of the test that also rejects a fractional number of days
ExpirationRejected_fractionsToo(days) ==
    days.type = "number" /\ (days.halves <= 0 \/ days.halves % 2 # 0)

\* expiresInDays !== undefined && expiresInDays <= 0.  The comparison
\* converts a text to a number: blank text to 0, text that is not a numeral
\* (the only other text passed here) to NaN, which compares false.
ExpirationRejected(days) ==
    \/ days.type = "number" /\ days.halves <= 0
    \/ days.type = "string" /\ TrimIsEmpty(days)

\* a variant that validates the name before it consults the gate
createApiKeyPrefix_validatesFirst(args) ==
    IF RequiredTest(TextValue(args.name)) = "required"
    THEN Return(Failure("validation_error", "API key name is required"))
    ELSE IF RequiredTest(TextValue(args.name)) = "throws"
    THEN Return(Thrown("name.trim is not a function"))
    ELSE IF AuthTokenMissing
    THEN Return(Failure("authentication_required",
                        "Authentication required to create API keys. Please authenticate first using verify-challenge."))
    ELSE IF ExpirationRejected(args.expiresInDays)
    THEN Return(Failure("validation_error", "API key expiration must be a positive number of days"))
    ELSE Proceed

createApiKeyPrefix(args) ==
    IF AuthTokenMissing
    THEN Return(Failure("authentication_required",
                        "Authentication required to create API keys. Please authenticate first using verify-challenge."))
    ELSE IF RequiredTest(TextValue(args.name)) = "required"
    THEN Return(Failure("validation_error", "API key name is required"))
    ELSE IF RequiredTest(TextValue(args.name)) = "throws"
    THEN Return(Thrown("name.trim is not a function"))
    ELSE IF ExpirationRejected(args.expiresInDays)
    THEN Return(Failure("validation_error", "API key expiration must be a positive number of days"))
    ELSE Proceed

deleteApiKeyPrefix(args) ==
    IF AuthTokenMissing
    THEN Return(Failure("authentication_required",
                        "Authentication required to delete API keys. Please authenticate first using verify-challenge."))
    ELSE IF RequiredTest(TextValue(args.keyId)) = "required"
    THEN Return(Failure("validation_error", "API key ID is required"))
    ELSE IF RequiredTest(TextValue(args.keyId)) = "throws"
    THEN Return(Thrown("keyId.trim is not a function"))
    ELSE Proceed

Ops == {"createChallenge", "verifyChallenge", "getApiKeys", "createApiKey", "deleteApiKey"}
KeyOps == {"getApiKeys", "createApiKey", "deleteApiKey"}

Prefix(op, args) ==
    CASE op = "createChallenge" -> createChallengePrefix(args)
      [] op = "verifyChallenge" -> verifyChallengePrefix(args)
      [] op = "getApiKeys" -> getApiKeysPrefix(args)
      [] op = "createApiKey" -> createApiKeyPrefix(args)
      [] OTHER -> deleteApiKeyPrefix(args)

\* the arguments each tool is called with
ArgsOf(op) ==
    CASE op = "createChallenge" ->
            {[NoArgs EXCEPT !.walletAddress = w] : w \in WalletIds}
      [] op = "verifyChallenge" ->
            {[NoArgs EXCEPT !.walletAddress = w, !.signature = g, !.nonce = n] :
                w \in WalletIds, g \in TextIds, n \in TextIds}
      [] op = "getApiKeys" -> {NoArgs}
      [] op = "createApiKey" ->
            {[NoArgs EXCEPT !.name = n, !.expiresInDays = d] : n \in TextIds, d \in DaysValues}
      [] OTHER -> {[NoArgs EXCEPT !.keyId = k] : k \in TextIds}

\* the arguments used where calls overlap: one well-formed call per tool and
\* the ill-formed ones of the tests
CoreArgsOf(op) ==
    CASE op = "createChallenge" ->
            {[NoArgs EXCEPT !.walletAddress = w] : w \in {"lower", "word"}}
      [] op = "verifyChallenge" ->
            {[NoArgs EXCEPT !.walletAddress = "lower", !.signature = "text", !.nonce = "text"],
             [NoArgs EXCEPT !.walletAddress = "word", !.signature = "text", !.nonce = "text"],
             [NoArgs EXCEPT !.walletAddress = "lower", !.signature = "empty", !.nonce = "text"]}
      [] op = "getApiKeys" -> {NoArgs}
      [] op = "createApiKey" ->
            {[NoArgs EXCEPT !.name = "text"],
             [NoArgs EXCEPT !.name = "empty"],
             [NoArgs EXCEPT !.name = "text", !.expiresInDays = Num(-10)]}
      [] OTHER -> {[NoArgs EXCEPT !.keyId = k] : k \in {"text", "empty"}}

(***************************************************************************)
(* What the backend can answer.  A transport failure, a timeout or a       *)
(* non-2xx status makes the HTTP call throw; the client method catches it  *)
(* and returns a failure envelope carrying the error's message.            *)
(***************************************************************************)
\* the message of the error the HTTP library throws for a 404 answer
NotFoundMessage == "Request failed with status code 404"

ErrorMessages == {"Network Error", NotFoundMessage}

PayloadKind(op) ==
    CASE op = "createChallenge" -> "challenge"
      [] op = "getApiKeys" -> "keys"
      [] op = "createApiKey" -> "key"
      [] op = "listVaults" -> "vaults"
      [] op = "update-vault" -> "vault"
      [] OTHER -> "deleted"

ResponseBodies(op) ==
    IF op = "verifyChallenge"
    THEN {Envelope(TRUE, "", "", TokenData(k.token, k.expiresAt)) : k \in Grants}
         \cup {Envelope(TRUE, "", "", NoData),
               Envelope(FALSE, "invalid_signature", "Signature verification failed", NoData),
               Envelope(FALSE, "invalid_signature", "Signature verification failed",
                        TokenData("tsk_1", ExpAbsent))}
    ELSE {Envelope(TRUE, "", "", Payload(PayloadKind(op))),
          Envelope(FALSE, "api_error", "Backend failure", NoData)}

BackendOutcomes(op) ==
    {[kind |-> "response", body |-> b, message |-> ""] : b \in ResponseBodies(op)}
    \cup {[kind |-> "error", body |-> NoEnvelope, message |-> m] : m \in ErrorMessages}

FailedMessage(op) ==
    CASE op = "createChallenge" -> "Failed to create authentication challenge"
      [] op = "verifyChallenge" -> "Failed to verify authentication challenge"
      [] op = "getApiKeys" -> "Failed to retrieve API keys"
      [] op = "createApiKey" -> "Failed to create API key"
      [] OTHER -> "Failed to delete API key"

\* the backend is asked only by a call that passed its local checks
NoOutcome == [kind |-> "none", body |-> NoEnvelope, message |-> ""]

OutcomesFor(op, args) ==
    IF Prefix(op, args).proceed THEN BackendOutcomes(op) ELSE {NoOutcome}

\* what the HTTP call handed to the client method: the response body, or the
\* error it threw
Received(outcome) ==
    IF outcome.kind = "response"
    THEN outcome.body
    ELSE [threw |-> TRUE, success |-> FALSE, error |-> "Error", message |-> outcome.message,
          data |-> NoData]

\* a variant that reports a 404 answer under a kind of its own
ClientResult_namesNotFound(op, outcome) ==
    IF outcome.kind = "response"
    THEN outcome.body
    ELSE IF outcome.message = NotFoundMessage
    THEN Failure("not_found", FailedMessage(op))
    ELSE Failure(outcome.message, FailedMessage(op))

\* a variant that files a failed request under a fixed kind
ClientResult_fixedKind(op, outcome) ==
    IF outcome.kind = "response"
    THEN outcome.body
    ELSE Failure("operational_error", FailedMessage(op))

\* what the TuskyApiClient method returns for a backend outcome
ClientResult(op, outcome) ==
    IF outcome.kind = "response"
    THEN outcome.body
    ELSE Failure(outcome.message, FailedMessage(op))

\* the client method a tool calls once its checks passed, with its arguments
ClientCall(op, args) ==
    CASE op = "createChallenge" ->
            [method |-> "createChallenge", params |-> <<args.walletAddress>>]
      [] op = "verifyChallenge" ->
            [method |-> "verifyChallenge",
             params |-> <<args.walletAddress, args.signature, args.nonce>>]
      [] op = "getApiKeys" -> [method |-> "getApiKeys", params |-> <<>>]
      [] op = "createApiKey" ->
            [method |-> "createApiKey", params |-> <<args.name, args.expiresInDays>>]
      [] OTHER -> [method |-> "deleteApiKey", params |-> <<args.keyId>>]

NoCall == [method |-> "", params |-> <<>>]

\* a variant that replaces the client's failures by a text of its own
ToolResult_rewritesFailures(response) ==
    IF response.success THEN response ELSE Failure("tool_error", "The operation failed")

\* what a tool returns for the response of its client method:
\* `return response;`
ToolResult(response) == response

(***************************************************************************)
(* check-auth-status and ping.  One instant of the clock lasts TickMs      *)
(* milliseconds.                                                           *)
(***************************************************************************)
Floor0(n) == IF n > 0 THEN n ELSE 0

\* the difference of the two getTime() values in seconds, rounded down
SecondsUntil(expiresAt, t) == ((expiresAt.t - t) * TickMs) \div MsPerSecond

expiresInAt_unclipped(expiresAt, t) ==
    IF ~ExpiresAtTruthy(expiresAt) THEN NullSeconds
    ELSE IF expiresAt.kind = "invalid" THEN NaNSeconds
    ELSE Seconds(SecondsUntil(expiresAt, t))

\* keyInfo.expiresAt ? Math.max(0, Math.floor((expiresAt - now) / 1000)) : null
expiresInAt(expiresAt, t) ==
    IF ~ExpiresAtTruthy(expiresAt) THEN NullSeconds
    ELSE IF expiresAt.kind = "invalid" THEN NaNSeconds
    ELSE Seconds(Floor0(SecondsUntil(expiresAt, t)))

\* checkAuthStatus(): isApiKeyValid() reads the clock at now, the success
\* branch reads it again at later
checkAuthStatus(later) ==
    IF isApiKeyValid /\ ~apiKey.isNull
    THEN Envelope(TRUE, "", "User is authenticated",
                  StatusData(expiresInAt(apiKey.expiresAt, later), later))
    ELSE Failure("not_authenticated", "User is not authenticated or token has expired")

\* the ping case of the CallTool handler
ping ==
    Envelope(TRUE, "", "Tusky MCP server is running and connected successfully",
             Payload(IF isApiKeyValid THEN "authenticated" ELSE "not_authenticated"))

(***************************************************************************)
(* Calls in flight and the observation of the latest step.                 *)
(*                                                                         *)
(* Only verify-challenge touches the session after its backend call, so    *)
(* only its invocations are kept in flight; the continuation of every      *)
(* other tool just hands the client's envelope back, and such a call is    *)
(* one step together with the backend's answer.                            *)
(***************************************************************************)
Slots == 1..MaxCalls

IdleCall == [pc |-> "idle", op |-> "", args |-> NoArgs, resp |-> NoEnvelope]

FreeSlots == {s \in Slots : calls[s].pc = "idle"}
FirstFree == CHOOSE s \in FreeSlots : \A r \in FreeSlots : s <= r

\* step: which kind of step it was; op, args: the tool and its arguments;
\* sent: the step dispatched a backend request (with header bearer);
\* returned: the invocation ended in this step, with result; valid: what
\* isApiKeyValid() was when a tool was invoked; key, ret: the argument and
\* the return value of a direct call of an AuthManager method; received:
\* what the HTTP call of an invocation handed to the client method; request:
\* the client method called, with its arguments
Observe(step, op, args, sent, bearer, returned, result) ==
    [step |-> step, op |-> op, args |-> args, sent |-> sent, bearer |-> bearer,
     returned |-> returned, result |-> result,
     valid |-> (step = "invoke" /\ isApiKeyValid), key |-> NullKey, ret |-> "",
     received |-> NoEnvelope,
     request |-> IF sent /\ op \in Ops THEN ClientCall(op, args) ELSE NoCall]

Quiet(step) == Observe(step, "", NoArgs, FALSE, NoHeader, FALSE, NoEnvelope)

Answer(step, ret) == [Quiet(step) EXCEPT !.ret = ret]

Bool(b) == IF b THEN "true" ELSE "false"

\* a variant in which other handlers run between the return of the client
\* method and the resumption of the tool that awaits it
Draining_never == FALSE

\* TuskyApiClient.verifyChallenge has returned and the tool awaiting it has
\* not resumed yet.  The return settles the awaited promise and queues the
\* tool's continuation as a job of the same turn of the event loop, which
\* runs before any other message, response or timer is handled: until the
\* tool has resumed no other handler starts.
Draining == \E s \in Slots : calls[s].pc = "client_returned"

Init ==
    /\ apiKey = NullKey
    /\ apiToken = NullToken
    /\ envApiKey \in {"", "static_key"}
    /\ authorization = StaticHeader(envApiKey)
    /\ now = 0
    /\ calls = [s \in Slots |-> IdleCall]
    /\ last = Quiet("init")

\* the clock advances
Tick ==
    /\ now < MaxTime
    /\ now' = now + 1
    /\ UNCHANGED <<apiKey, apiToken, authorization, envApiKey, calls, last>>

\* create-challenge, get-api-keys, create-api-key or delete-api-key is
\* invoked: validation and gate; then the request is dispatched with the
\* default authorization header of that moment, the backend answers, and
\* the tool returns what the client method returned
Invoke(op, args, outcome) ==
    LET pre == Prefix(op, args) IN
    /\ ~Draining
    /\ op # "verifyChallenge"
    /\ last' = IF pre.proceed
               THEN [Observe("invoke", op, args, TRUE, authorization, TRUE,
                             ToolResult(ClientResult(op, outcome)))
                        EXCEPT !.received = Received(outcome)]
               ELSE Observe("invoke", op, args, FALSE, NoHeader, TRUE, pre.result)
    /\ UNCHANGED <<apiKey, apiToken, authorization, envApiKey, now, calls>>

\* what the list-vaults executor returns for a backend outcome: the generic
\* get() of the client does not catch, the executor does
listVaultsResult(outcome) ==
    IF outcome.kind = "response"
    THEN IF ~outcome.body.success \/ outcome.body.data.kind # "vaults"
         THEN Failure(IF outcome.body.error # "" THEN outcome.body.error
                      ELSE "Failed to list vaults",
                      IF outcome.body.message # "" THEN outcome.body.message
                      ELSE "An error occurred while fetching vaults.")
         ELSE Envelope(TRUE, "", "", Payload("vaults"))
    ELSE Failure(Received(outcome).error, outcome.message)

\* the outcomes there are for an invocation of list-vaults
listVaultsOutcomes ==
    IF isApiKeyValid THEN BackendOutcomes("listVaults") ELSE {NoOutcome}

\* list-vaults, a resource tool, is invoked without parameters: the gate is
\* tuskyMcpServer.isAuthenticated(), then the request is dispatched and the
\* backend's answer is turned into the result
InvokeListVaults(outcome) ==
    /\ ~Draining
    /\ last' = IF isApiKeyValid
               THEN [Observe("invoke", "listVaults", NoArgs, TRUE, authorization, TRUE,
                             listVaultsResult(outcome))
                        EXCEPT !.received = Received(outcome)]
               ELSE Observe("invoke", "listVaults", NoArgs, FALSE, NoHeader, TRUE,
                            Failure("Authentication required",
                                    "You must be authenticated to list vaults. Use the request-auth-challenge and verify-auth-challenge tools first."))
    /\ UNCHANGED <<apiKey, apiToken, authorization, envApiKey, now, calls>>

\* a variant that forwards only when a challenge was requested just before
InvokeVerify_needsChallenge(args) ==
    LET pre == IF last.op = "createChallenge" /\ last.sent
               THEN verifyChallengePrefix(args)
               ELSE Return(Failure("validation_error", "No challenge was requested"))
    IN
    /\ ~Draining
    /\ IF pre.proceed
       THEN /\ FreeSlots # {}
            /\ calls' = [calls EXCEPT ![FirstFree] =
                            [pc |-> "sent", op |-> "verifyChallenge", args |-> args, resp |-> NoEnvelope]]
            /\ last' = Observe("invoke", "verifyChallenge", args, TRUE, authorization,
                               FALSE, NoEnvelope)
       ELSE /\ calls' = calls
            /\ last' = Observe("invoke", "verifyChallenge", args, FALSE, NoHeader,
                               TRUE, pre.result)
    /\ UNCHANGED <<apiKey, apiToken, authorization, envApiKey, now>>

\* verify-challenge is invoked: validation, then the request is dispatched
InvokeVerify(args) ==
    LET pre == verifyChallengePrefix(args) IN
    /\ ~Draining
    /\ IF pre.proceed
       THEN /\ FreeSlots # {}
            /\ calls' = [calls EXCEPT ![FirstFree] =
                            [pc |-> "sent", op |-> "verifyChallenge", args |-> args, resp |-> NoEnvelope]]
            /\ last' = Observe("invoke", "verifyChallenge", args, TRUE, authorization,
                               FALSE, NoEnvelope)
       ELSE /\ calls' = calls
            /\ last' = Observe("invoke", "verifyChallenge", args, FALSE, NoHeader,
                               TRUE, pre.result)
    /\ UNCHANGED <<apiKey, apiToken, authorization, envApiKey, now>>

\* a variant that sends the request again when it failed
RespondVerify_retriesOnError(s, outcome) ==
    /\ ~Draining
    /\ calls[s].pc = "sent"
    /\ IF outcome.kind = "response" /\ CarriesToken(outcome.body)
       THEN setAuthToken(outcome.body.data.token)
       ELSE UNCHANGED <<apiToken, authorization>>
    /\ calls' = IF outcome.kind = "error"
                THEN calls
                ELSE [calls EXCEPT ![s].pc = "client_returned",
                                   ![s].resp = ClientResult("verifyChallenge", outcome)]
    /\ last' = Observe("respondVerify", "verifyChallenge", calls[s].args,
                       outcome.kind = "error",
                       IF outcome.kind = "error" THEN authorization ELSE NoHeader,
                       FALSE, Received(outcome))
    /\ UNCHANGED <<apiKey, envApiKey, now>>

\* the backend answers a verify-challenge: TuskyApiClient.verifyChallenge
\* installs the token on success and returns to the tool
RespondVerify(s, outcome) ==
    /\ ~Draining
    /\ calls[s].pc = "sent"
    /\ IF outcome.kind = "response" /\ CarriesToken(outcome.body)
       THEN setAuthToken(outcome.body.data.token)
       ELSE UNCHANGED <<apiToken, authorization>>
    /\ calls' = [calls EXCEPT ![s].pc = "client_returned",
                              ![s].resp = ClientResult("verifyChallenge", outcome)]
    /\ last' = Observe("respondVerify", "verifyChallenge", calls[s].args, FALSE, NoHeader,
                       FALSE, Received(outcome))
    /\ UNCHANGED <<apiKey, envApiKey, now>>

\* the verify-challenge tool resumes after the client method returned
ResumeVerify(s) ==
    /\ calls[s].pc = "client_returned"
    /\ IF CarriesToken(calls[s].resp)
       THEN storeAuthFromVerifyResponse(calls[s].resp)
       ELSE UNCHANGED <<apiKey, apiToken, authorization>>
    /\ calls' = [calls EXCEPT ![s] = IdleCall]
    /\ last' = Observe("resumeVerify", "verifyChallenge", calls[s].args, FALSE, NoHeader,
                       TRUE, ToolResult(calls[s].resp))
    /\ UNCHANGED <<envApiKey, now>>

\* AuthManager.setApiKey called directly
SetApiKey(keyInfo) ==
    /\ ~Draining
    /\ setApiKey(keyInfo)
    /\ last' = [Quiet("setApiKey") EXCEPT !.key = keyInfo]
    /\ UNCHANGED <<envApiKey, now, calls>>

\* AuthManager.clearApiKey called directly
ClearApiKey ==
    /\ ~Draining
    /\ clearApiKey
    /\ last' = Quiet("clearApiKey")
    /\ UNCHANGED <<envApiKey, now, calls>>

\* a variant that drops an expired record when it sees one
IsApiKeyValid_destroysExpired ==
    /\ last' = Answer("isApiKeyValid", Bool(isApiKeyValid))
    /\ IF ~apiKey.isNull /\ apiKey.token # "" /\ ~isApiKeyValid
       THEN clearApiKey
       ELSE UNCHANGED <<apiKey, apiToken, authorization>>
    /\ UNCHANGED <<envApiKey, now, calls>>

\* AuthManager.isApiKeyValid evaluated (isAuthenticated, ping,
\* check-auth-status)
IsApiKeyValid ==
    /\ ~Draining
    /\ last' = Answer("isApiKeyValid", Bool(isApiKeyValid))
    /\ UNCHANGED <<apiKey, apiToken, authorization, envApiKey, now, calls>>

\* AuthManager.getApiToken evaluated
GetApiToken ==
    /\ ~Draining
    /\ last' = Answer("getApiToken", getApiToken)
    /\ UNCHANGED <<apiKey, apiToken, authorization, envApiKey, now, calls>>

\* a variant that removes a session it finds expired
CheckAuthStatus_clearsExpired(later) ==
    /\ ~Draining
    /\ later >= now
    /\ now' = later
    /\ last' = [Observe("invoke", "checkAuthStatus", NoArgs, FALSE, NoHeader, TRUE,
                        checkAuthStatus(later))
                   EXCEPT !.valid = isApiKeyValid]
    /\ IF isApiKeyValid
       THEN UNCHANGED <<apiKey, apiToken, authorization>>
       ELSE clearApiKey
    /\ UNCHANGED <<envApiKey, calls>>

\* check-auth-status is invoked; the clock may advance between its reads
CheckAuthStatus(later) ==
    /\ ~Draining
    /\ later >= now
    /\ now' = later
    /\ last' = [Observe("invoke", "checkAuthStatus", NoArgs, FALSE, NoHeader, TRUE,
                        checkAuthStatus(later))
                   EXCEPT !.valid = isApiKeyValid]
    /\ UNCHANGED <<apiKey, apiToken, authorization, envApiKey, calls>>

\* ping is invoked
Ping ==
    /\ ~Draining
    /\ last' = [Observe("invoke", "ping", NoArgs, FALSE, NoHeader, TRUE, ping)
                   EXCEPT !.valid = isApiKeyValid]
    /\ UNCHANGED <<apiKey, apiToken, authorization, envApiKey, now, calls>>

(***************************************************************************)
(* Listing and dispatch.  list-tools answers with tuskyTools: the static   *)
(* list and whatever registerTool pushed onto it; call-tool is a switch    *)
(* over the tool name.                                                     *)
(***************************************************************************)
StaticTools ==
    {"create-challenge", "verify-challenge", "check-auth-status", "get-api-keys",
     "create-api-key", "delete-api-key", "ping"}

\* the names the register*Tools functions called by registerAllTools push
RegisteredTools ==
    {"list-vaults", "get-vault", "create-vault", "update-vault", "delete-vault",
     "list-folders", "get-folder", "create-folder", "update-folder", "delete-folder",
     "list-files", "get-file", "update-file", "delete-file", "get-profile",
     "update-profile", "search-content", "initiate-upload", "get-upload-status"}

\* what the list-tools handler returns
ListedTools == StaticTools \cup RegisteredTools

\* the case labels of the call-tool switch
SwitchCases ==
    {"create-challenge", "verify-challenge", "check-auth-status", "get-api-keys",
     "create-api-key", "delete-api-key", "ping"}

\* the default branch throws McpError(MethodNotFound, 'Unknown tool: ...');
\* the handler's catch turns it into an isError result
UnknownTool == Failure("isError", "Tusky API error: Unknown tool")

\* call-tool for a name without a case label
CallToolDefault(name) ==
    /\ ~Draining
    /\ name \notin SwitchCases
    /\ last' = Observe("callTool", name, NoArgs, FALSE, NoHeader, TRUE, UnknownTool)
    /\ UNCHANGED <<apiKey, apiToken, authorization, envApiKey, now, calls>>

(***************************************************************************)
(* Resource tools that look the resource up before they change it:         *)
(* update-vault, delete-vault, delete-folder, delete-file and              *)
(* delete-file-metadata.  Each executor is gate, schema, existence lookup, *)
(* for a permanent deletion a second lookup for the name, then the         *)
(* request that changes the resource; each await of a request gives way    *)
(* to whatever else is scheduled.                                          *)
(***************************************************************************)
ResourceTools == {"update-vault", "delete-vault", "delete-folder", "delete-file",
                  "delete-file-metadata"}

\* the arguments the executors are called with: permanent absent or true,
\* confirmed absent, false, true or a non-empty string, key absent or given
ResourceArgsOf(tool) ==
    {[NoArgs EXCEPT !.id = "empty"]}
    \cup CASE tool = "update-vault" -> {[NoArgs EXCEPT !.id = "text"]}
           [] tool = "delete-file-metadata" ->
                 {[NoArgs EXCEPT !.id = "text", !.key = k, !.confirmed = c] :
                     k \in {"missing", "text"}, c \in {"missing", "false", "true", "text"}}
           [] OTHER ->
                 {[NoArgs EXCEPT !.id = "text", !.permanent = q, !.confirmed = c] :
                     q \in {"missing", "true"}, c \in {"missing", "false", "true", "text"}}

\* Schema.parse(params): id is z.string().min(1)
SchemaAccepts(args) == args.id = "text"

\* validatedParams.permanent, after .optional().default(false)
Permanent(args) == args.permanent = "true"

\* the truth value JavaScript gives params['confirmed'] and validatedParams.key
Truthy(id) == id \in {"true", "text"}

\* error?.response?.status of a failed HTTP call; 0 when there is no response
StatusOf(outcome) == IF outcome.message = NotFoundMessage THEN 404 ELSE 0

\* a variant for which every failed lookup means the vault is missing
vaultExists_missingOnAnyError(outcome) ==
    [threw |-> FALSE, value |-> outcome.kind = "response"]

\* VaultClient.vaultExists: what it returns, or that it throws
vaultExists(outcome) ==
    IF outcome.kind = "response" THEN [threw |-> FALSE, value |-> TRUE]
    ELSE IF StatusOf(outcome) = 404 THEN [threw |-> FALSE, value |-> FALSE]
    ELSE [threw |-> TRUE, value |-> FALSE]

\* FolderClient.folderExists
folderExists(outcome) ==
    IF outcome.kind = "response" THEN [threw |-> FALSE, value |-> TRUE]
    ELSE IF StatusOf(outcome) = 404 THEN [threw |-> FALSE, value |-> FALSE]
    ELSE [threw |-> TRUE, value |-> FALSE]

\* FileClient.fileExists
fileExists(outcome) ==
    IF outcome.kind = "response" THEN [threw |-> FALSE, value |-> TRUE]
    ELSE IF StatusOf(outcome) = 404 THEN [threw |-> FALSE, value |-> FALSE]
    ELSE [threw |-> TRUE, value |-> FALSE]

Exists(tool, outcome) ==
    CASE tool \in {"update-vault", "delete-vault"} -> vaultExists(outcome)
      [] tool = "delete-folder" -> folderExists(outcome)
      [] OTHER -> fileExists(outcome)

\* the catch block of an executor: {error: error.name, message: error.message}
Caught(outcome) == Failure(Received(outcome).error, outcome.message)

AuthenticationRequired == Failure("Authentication required", "You must be authenticated")
SchemaRejected == Failure("ZodError", "id is required")
NotFound == Failure("Not found", "does not exist or you don't have access to it.")
ConfirmationRequired ==
    [Failure("Confirmation required", "To confirm, call again with confirmed: true")
        EXCEPT !.data = Payload("requiresConfirmation")]

\* what an executor does next: send the request of the next phase, or return
Send(pc) == [proceed |-> TRUE, pc |-> pc, result |-> NoEnvelope]
Finish(env) == [proceed |-> FALSE, pc |-> "idle", result |-> env]

\* gate and schema
resourcePrefix(args) ==
    IF ~isApiKeyValid THEN Finish(AuthenticationRequired)
    ELSE IF ~SchemaAccepts(args) THEN Finish(SchemaRejected)
    ELSE Send("lookup")

\* after the existence lookup
afterLookup(tool, args, outcome) ==
    LET found == Exists(tool, outcome) IN
    IF found.threw THEN Finish(Caught(outcome))
    ELSE IF ~found.value THEN Finish(NotFound)
    ELSE IF tool = "update-vault" THEN Send("mutation")
    ELSE IF tool = "delete-file-metadata"
    THEN IF ~Truthy(args.key) /\ ~Truthy(args.confirmed)
         THEN Finish(ConfirmationRequired)
         ELSE Send("mutation")
    ELSE IF Permanent(args) THEN Send("info") ELSE Send("mutation")

\* after the lookup of the name for the warning of a permanent deletion:
\* delete-vault and delete-folder return the warning whatever confirmed is,
\* delete-file returns it unless confirmed is truthy
afterInfo(tool, args, outcome) ==
    IF outcome.kind = "error" THEN Finish(Caught(outcome))
    ELSE IF tool \in {"delete-vault", "delete-folder"} THEN Finish(ConfirmationRequired)
    ELSE IF ~Truthy(args.confirmed) THEN Finish(ConfirmationRequired)
    ELSE Send("mutation")

DeletedMessage(tool, args) ==
    CASE tool = "delete-vault" ->
            IF Permanent(args) THEN "Vault permanently deleted successfully."
            ELSE "Vault moved to trash successfully. You can restore it later if needed."
      [] tool = "delete-folder" ->
            IF Permanent(args) THEN "Folder permanently deleted successfully."
            ELSE "Folder moved to trash successfully. You can restore it later if needed."
      [] tool = "delete-file" ->
            IF Permanent(args) THEN "File permanently deleted successfully."
            ELSE "File moved to trash successfully. You can restore it later if needed."
      [] tool = "delete-file-metadata" ->
            IF Truthy(args.key) THEN "Metadata key deleted successfully."
            ELSE "All metadata for the file deleted successfully."
      [] OTHER -> "Vault updated successfully."

\* after the request that changes the resource
afterMutation(tool, args, outcome) ==
    IF outcome.kind = "error" THEN Finish(Caught(outcome))
    ELSE IF ~outcome.body.success
    THEN Finish(Failure(IF outcome.body.error # "" THEN outcome.body.error
                        ELSE "Failed", outcome.body.message))
    ELSE Finish(Envelope(TRUE, "", DeletedMessage(tool, args), Payload(outcome.body.data.kind)))

\* the request of each phase: the HTTP method and what it is for
ResourceRequest(tool, pc) ==
    [method |-> CASE pc \in {"lookup", "info"} -> "get"
                  [] tool = "update-vault" -> "put"
                  [] OTHER -> "delete",
     params |-> <<pc>>]

\* the step an executor takes: it returns, or it sends the next request with
\* the authorization header of this moment and waits for the answer
ResourceStep(step, s, tool, args, received, ret, next) ==
    /\ calls' = [calls EXCEPT ![s] = IF next.proceed
                                      THEN [pc |-> next.pc, op |-> tool, args |-> args,
                                            resp |-> NoEnvelope]
                                      ELSE IdleCall]
    /\ last' = [Observe(step, tool, args, next.proceed,
                        IF next.proceed THEN authorization ELSE NoHeader,
                        ~next.proceed, next.result)
                   EXCEPT !.valid = isApiKeyValid, !.received = received, !.ret = ret,
                          !.request = IF next.proceed THEN ResourceRequest(tool, next.pc)
                                      ELSE NoCall]
    /\ UNCHANGED <<apiKey, apiToken, authorization, envApiKey, now>>

\* the executor of a resource tool is called
InvokeResource(tool, args) ==
    /\ ~Draining
    /\ FreeSlots # {}
    /\ ResourceStep("invoke", FirstFree, tool, args, NoEnvelope, "", resourcePrefix(args))

\* the existence lookup is answered
RespondLookup(s, outcome) ==
    /\ calls[s].pc = "lookup"
    /\ ResourceStep("respondLookup", s, calls[s].op, calls[s].args, Received(outcome),
                    LET found == Exists(calls[s].op, outcome) IN
                        IF found.threw THEN "throws" ELSE Bool(found.value),
                    afterLookup(calls[s].op, calls[s].args, outcome))

\* the lookup of the name is answered
RespondInfo(s, outcome) ==
    /\ calls[s].pc = "info"
    /\ ResourceStep("respondInfo", s, calls[s].op, calls[s].args, Received(outcome), "",
                    afterInfo(calls[s].op, calls[s].args, outcome))

\* the request that changes the resource is answered
RespondMutation(s, outcome) ==
    /\ calls[s].pc = "mutation"
    /\ ResourceStep("respondMutation", s, calls[s].op, calls[s].args, Received(outcome), "",
                    afterMutation(calls[s].op, calls[s].args, outcome))

(***************************************************************************)
(* Spec: the session life cycle with calls overlapping.                    *)
(***************************************************************************)
Next ==
    \/ Tick
    \/ \E op \in Ops : \E args \in CoreArgsOf(op) : \E o \in OutcomesFor(op, args) :
          Invoke(op, args, o)
    \/ \E o \in listVaultsOutcomes : InvokeListVaults(o)
    \/ \E args \in CoreArgsOf("verifyChallenge") : InvokeVerify(args)
    \/ \E s \in Slots : \E o \in BackendOutcomes("verifyChallenge") : RespondVerify(s, o)
    \/ \E s \in Slots : ResumeVerify(s)
    \/ \E k \in Grants \cup {NullKey} : SetApiKey(k)
    \/ ClearApiKey
    \/ IsApiKeyValid
    \/ \E later \in Instants : CheckAuthStatus(later)
    \/ Ping

Spec == Init /\ [][Next]_vars

(***************************************************************************)
(* SpecStore: the session store alone, over every kind of key record       *)
(* (empty token, empty or unparsable expiresAt).                           *)
(***************************************************************************)
KeyInfos == {NullKey} \cup {KeyInfo(t, e) : t \in Tokens \cup {""}, e \in Expiries}

NextStore ==
    \/ Tick
    \/ \E k \in KeyInfos : SetApiKey(k)
    \/ ClearApiKey
    \/ IsApiKeyValid
    \/ GetApiToken

SpecStore == Init /\ [][NextStore]_vars

(***************************************************************************)
(* SpecInputs: the tools over every argument value, one call at a time,    *)
(* started in a session state the store can be in.                         *)
(***************************************************************************)
SessionsAtStart == {NullKey, KeyInfo("tsk_1", ExpAt(0)), KeyInfo("tsk_2", ExpAbsent)}

InitInputs ==
    /\ apiKey \in SessionsAtStart
    /\ apiToken = getApiTokenOf(apiKey)
    /\ envApiKey \in {"", "static_key"}
    /\ authorization = IF apiToken = NullToken THEN StaticHeader(envApiKey) ELSE Bearer(apiToken)
    /\ now = 0
    /\ calls = [s \in Slots |-> IdleCall]
    /\ last = Quiet("init")

NextInputs ==
    \/ \E op \in Ops : \E args \in ArgsOf(op) : \E o \in OutcomesFor(op, args) :
          FreeSlots = Slots /\ Invoke(op, args, o)
    \/ \E args \in ArgsOf("verifyChallenge") : FreeSlots = Slots /\ InvokeVerify(args)
    \/ \E s \in Slots : \E o \in BackendOutcomes("verifyChallenge") : RespondVerify(s, o)
    \/ \E s \in Slots : ResumeVerify(s)
    \/ FreeSlots = Slots /\ CheckAuthStatus(now)
    \/ FreeSlots = Slots /\ Ping
    \/ \E name \in ListedTools \cup {"no-such-tool"} :
          FreeSlots = Slots /\ CallToolDefault(name)

SpecInputs == InitInputs /\ [][NextInputs]_vars

(***************************************************************************)
(* SpecResources: the resource tools, one call at a time, while the clock  *)
(* advances and the session is cleared.                                    *)
(***************************************************************************)
InitResources ==
    /\ apiKey \in {NullKey, KeyInfo("tsk_1", ExpAt(1)), KeyInfo("tsk_2", ExpAbsent)}
    /\ apiToken = getApiTokenOf(apiKey)
    /\ envApiKey \in {"", "static_key"}
    /\ authorization = IF apiToken = NullToken THEN StaticHeader(envApiKey) ELSE Bearer(apiToken)
    /\ now = 0
    /\ calls = [s \in Slots |-> IdleCall]
    /\ last = Quiet("init")

NextResources ==
    \/ Tick
    \/ ClearApiKey
    \/ \E tool \in ResourceTools : \E args \in ResourceArgsOf(tool) :
          FreeSlots = Slots /\ InvokeResource(tool, args)
    \/ \E s \in Slots : \E o \in BackendOutcomes(calls[s].op) : RespondLookup(s, o)
    \/ \E s \in Slots : \E o \in BackendOutcomes(calls[s].op) : RespondInfo(s, o)
    \/ \E s \in Slots : \E o \in BackendOutcomes(calls[s].op) : RespondMutation(s, o)

SpecResources == InitResources /\ [][NextResources]_vars

(***************************************************************************)
(* Properties.                                                             *)
(***************************************************************************)
StoreVars == <<apiKey, apiToken, authorization>>

\* C1: whenever the session is not valid (no token held, or expiresAt
\* reached) at the moment get-api-keys, create-api-key or delete-api-key is
\* invoked, the tool returns authentication_required and sends nothing to
\* the backend; in particular the first key operation after the expiry has
\* lapsed is rejected although nothing cleared the session.
C1_GateRejectsInvalidSession ==
    (last.step = "invoke" /\ last.op \in KeyOps /\ ~last.valid)
        => /\ ~last.sent
           /\ last.returned
           /\ ~last.result.threw
           /\ ~last.result.success
           /\ last.result.error = "authentication_required"

\* the steps of a verify-challenge call in slot s
Answered(s) == calls[s].pc = "sent" /\ calls'[s].pc = "client_returned"
Resumed(s) == calls[s].pc = "client_returned" /\ calls'[s].pc = "idle"

\* the backend granted a session: a successful response with a token
Granted(r) == ~r.threw /\ r.success /\ r.data.token # ""

C2_Step ==
    /\ \A s \in Slots :
          (Resumed(s) /\ Granted(calls[s].resp))
              => /\ apiKey' = KeyInfo(calls[s].resp.data.token, calls[s].resp.data.expiresAt)
                 /\ apiToken' = calls[s].resp.data.token
                 /\ authorization' = Bearer(calls[s].resp.data.token)
    /\ (last'.step = "invoke" /\ last'.sent) => last'.bearer = authorization'
    /\ (authorization' # authorization)
          => \/ \E s \in Slots : Answered(s) /\ Granted(calls'[s].resp)
             \/ \E s \in Slots : Resumed(s) /\ Granted(calls[s].resp)
             \/ last'.step \in {"setApiKey", "clearApiKey"}

\* C2: when a verify-challenge for which the backend granted token T with
\* expiry E completes, the session store holds exactly {T, E} whatever it
\* held before and the outbound credential is Bearer T; a request carries the
\* credential in force when it is dispatched, and that credential changes
\* only in a successful verify-challenge, a set or a clear.
C2_VerifyInstallsSession == [][C2_Step]_vars

C2_Witness ==
    /\ last.step = "resumeVerify"
    /\ Granted(last.result)
    /\ last.result.data.token = "tsk_2"
    /\ apiKey = KeyInfo("tsk_2", ExpAbsent)
    /\ authorization = Bearer("tsk_2")
    /\ now > 0

C3_Step ==
    \A s \in Slots :
        /\ (Answered(s) /\ ~Granted(last'.result))
              => /\ UNCHANGED StoreVars
                 /\ calls'[s].resp =
                        IF last'.result.threw
                        THEN Failure(last'.result.message,
                                     "Failed to verify authentication challenge")
                        ELSE last'.result
        /\ (Resumed(s) /\ ~Granted(calls[s].resp))
              => /\ UNCHANGED StoreVars
                 /\ last'.returned
                 /\ last'.result = calls[s].resp

\* C3: when the backend reports failure for a verify-challenge (an
\* unsuccessful response, a response without a token, or a thrown transport
\* error), no step of that call changes the session store or the outbound
\* credential, also when a valid session is held, and the tool returns the
\* backend's response as it came (for a thrown error, the failure envelope
\* carrying the error's message).
C3_FailedVerifyLeavesSession == [][C3_Step]_vars

C3_Witness ==
    /\ last.step = "resumeVerify"
    /\ last.returned
    /\ ~last.result.success
    /\ last.result.error = "invalid_signature"
    /\ isApiKeyValid
    /\ apiToken = "tsk_1"

\* a key record that holds a token; an expiry stamp that instant t has reached
Held(k) == ~k.isNull /\ k.token # ""
Lapsed(e, t) == e.kind = "iso" /\ e.t <= t

C4_Step ==
    (last'.step = "isApiKeyValid" /\ now' = now)
        => last'.ret = Bool(Held(apiKey') /\ ~Lapsed(apiKey'.expiresAt, now'))

\* C4: isApiKeyValid() returns false if no token is held, false if expiresAt
\* is a date and expiresAt <= now (expiresAt = now counts as expired), and
\* true otherwise; a record without expiresAt is valid at every instant.
C4_IsValidResult == [][C4_Step]_vars

C4_Witness ==
    /\ last.step = "isApiKeyValid"
    /\ last.ret = "false"
    /\ Held(apiKey)
    /\ apiKey.expiresAt = ExpAt(now)
    /\ now > 0

C5_Step ==
    (/\ last.step = "resumeVerify"
     /\ Granted(last.result)
     /\ last.result.data.expiresAt.kind = "iso"
     /\ last'.step = "isApiKeyValid")
        => last'.ret = Bool(now' < last.result.data.expiresAt.t)

\* C5: after a granted verify-challenge whose token expires at instant E,
\* with no operation in between and only the clock advancing, the next
\* isApiKeyValid() returns true while now < E and false once now >= E.
C5_ExpiryObservedWithoutTimer == [][C5_Step]_vars

C5_Witness ==
    /\ last.step = "resumeVerify"
    /\ Granted(last.result)
    /\ last.result.data.expiresAt = ExpAt(1)
    /\ apiKey = KeyInfo("tsk_1", ExpAt(1))
    /\ now = 2

\* C6 as stated: once isApiKeyValid() has been evaluated after expiresAt has
\* passed, the store is Unauthenticated: the expired token is no longer held.
C6_EvaluationDestroysExpired ==
    (last.step = "isApiKeyValid" /\ last.ret = "false") => getApiToken = NullToken

C6_Step ==
    (last'.step = "isApiKeyValid" /\ now' = now)
        => /\ UNCHANGED StoreVars
           /\ (Held(apiKey) /\ Lapsed(apiKey.expiresAt, now)) => last'.ret = "false"

\* C6 amended: lazy expiry is observed, not stored: an isApiKeyValid()
\* evaluated after expiresAt has passed returns false and changes nothing;
\* the expired token stays in the store and as outbound credential.
C6_ExpiryIsObservedOnly == [][C6_Step]_vars

C6_Witness ==
    /\ last.step = "isApiKeyValid"
    /\ last.ret = "false"
    /\ Held(apiKey)
    /\ Lapsed(apiKey.expiresAt, now)
    /\ apiToken = apiKey.token
    /\ authorization = Bearer(apiKey.token)

\* a 0x-prefixed string of exactly 40 hexadecimal characters
IsHexAddress(v) ==
    /\ v.type = "string"
    /\ Len(v.chars) = 2 + HexLen
    /\ v.chars[1] = "0"
    /\ v.chars[2] = "x"
    /\ \A i \in 3..Len(v.chars) : v.chars[i] \in HexDigits

\* C7: for every wallet address that is not a 0x-prefixed string of exactly
\* 40 hexadecimal characters (also an empty or a missing one), create-challenge
\* and verify-challenge return validation_error and send nothing to the
\* backend, in every session state.
C7_MalformedWalletRejected ==
    (/\ last.step = "invoke"
     /\ last.op \in {"createChallenge", "verifyChallenge"}
     /\ ~IsHexAddress(WalletValue(last.args.walletAddress)))
        => /\ ~last.sent
           /\ last.returned
           /\ ~last.result.threw
           /\ last.result.error = "validation_error"

\* a missing, empty or whitespace-only text; a text with content
IsBlank(v) ==
    \/ v.type = "undefined"
    \/ v.type = "string" /\ \A i \in 1..Len(v.chars) : v.chars[i] \in WhiteSpace
IsText(v) == v.type = "string" /\ ~IsBlank(v)

C8_Rejected(message) ==
    /\ last'.returned
    /\ ~last'.sent
    /\ last'.result = Failure("validation_error", message)
    /\ calls' = calls
    /\ UNCHANGED StoreVars

C8_Step ==
    (last'.step = "invoke" /\ last'.op = "verifyChallenge")
        => LET walletOk == isValidWalletAddress(WalletValue(last'.args.walletAddress))
               signature == TextValue(last'.args.signature)
               nonce == TextValue(last'.args.nonce)
           IN /\ ~walletOk => C8_Rejected("Invalid wallet address format")
              /\ (walletOk /\ IsBlank(signature)) => C8_Rejected("Signature is required")
              /\ (walletOk /\ IsText(signature) /\ IsBlank(nonce))
                    => C8_Rejected("Nonce is required")

\* C8: verify-challenge checks the wallet address format, then that the
\* signature is not empty, then that the nonce is not empty; the first check
\* that fails decides the validation_error returned, and when one fails
\* nothing is sent to the backend and the session store is unchanged.
C8_ChecksInOrder == [][C8_Step]_vars

C8_Witness ==
    /\ last.step = "invoke"
    /\ last.op = "verifyChallenge"
    /\ last.args.walletAddress = "word"
    /\ last.args.signature = "empty"
    /\ last.args.nonce = "blank"
    /\ last.result = Failure("validation_error", "Invalid wallet address format")
    /\ ~apiKey.isNull

\* the expiry of a record that instant t has not reached
Unexpired(e, t) == e.kind = "absent" \/ (e.kind = "iso" /\ e.t > t)

C9_Step ==
    /\ (last.step = "setApiKey" /\ Held(last.key) /\ last'.step = "getApiToken")
          => last'.ret = last.key.token
    /\ (/\ last.step = "setApiKey"
        /\ Held(last.key)
        /\ Unexpired(last.key.expiresAt, now')
        /\ last'.step = "isApiKeyValid")
          => last'.ret = "true"
    /\ (last.step = "clearApiKey" /\ last'.step = "getApiToken") => last'.ret = NullToken
    /\ (last.step = "clearApiKey" /\ last'.step = "isApiKeyValid") => last'.ret = "false"

\* C9: from any store state, setApiKey({token, expiresAt}) followed by
\* getApiToken() returns that token, and isApiKeyValid() is true if the expiry
\* is not reached; clearApiKey() followed by getApiToken() returns null and
\* isApiKeyValid() is false.
C9_StoreRoundTrip == [][C9_Step]_vars

C9_Witness ==
    /\ last.step = "getApiToken"
    /\ last.ret = "tsk_2"
    /\ apiKey = KeyInfo("tsk_2", ExpAt(MaxTime))
    /\ now = 1

\* C10 as stated: in every session state, create-api-key with an empty or
\* whitespace-only name returns validation_error and sends nothing.
C10_NameValidatedBeforeGate ==
    (/\ last.step = "invoke"
     /\ last.op = "createApiKey"
     /\ IsBlank(TextValue(last.args.name)))
        => /\ ~last.sent
           /\ last.result.error = "validation_error"

\* C10 amended: create-api-key consults the gate before it validates: with no
\* session token installed it returns authentication_required also for an
\* empty or whitespace-only name, with one installed it returns
\* validation_error for such a name; nothing is sent in either case.
C10_GateBeforeNameValidation ==
    (/\ last.step = "invoke"
     /\ last.op = "createApiKey"
     /\ IsBlank(TextValue(last.args.name)))
        => /\ ~last.sent
           /\ last.returned
           /\ ~last.result.success
           /\ last.result.error = IF apiToken = NullToken
                                  THEN "authentication_required"
                                  ELSE "validation_error"

C10_Witness ==
    /\ last.step = "invoke"
    /\ last.op = "createApiKey"
    /\ last.args.name = "empty"
    /\ apiToken = NullToken
    /\ last.result.error = "authentication_required"

\* a number of days, given in halves of a day
IsNumber(d) == d.type = "number"
PositiveInteger(d) == d.type = "number" /\ d.halves > 0 /\ d.halves % 2 = 0

\* create-api-key was just invoked with a name that has content
C11_Invoked ==
    /\ last.step = "invoke"
    /\ last.op = "createApiKey"
    /\ IsText(TextValue(last.args.name))

C12_OnlyPositiveIntegersForwarded ==
    (/\ C11_Invoked
     /\ last.args.expiresInDays.type # "undefined"
     /\ ~PositiveInteger(last.args.expiresInDays))
        => ~last.sent

\* C12 amended: past the gate and the name check, a provided number of days
\* is rejected locally (validation_error, nothing sent) exactly when it is 0
\* or negative; every positive number, a fraction such as 0.5 included, is
\* forwarded to the backend, and so is a text that is not a numeral.
C12_PositiveNumbersForwarded ==
    (/\ C11_Invoked
     /\ apiToken # NullToken
     /\ last.args.expiresInDays.type # "undefined")
        => LET d == last.args.expiresInDays
           IN /\ IsNumber(d) => (last.sent <=> d.halves > 0)
              /\ (d.type = "string" /\ ~IsBlank(d)) => last.sent
              /\ ~last.sent => last.result.error = "validation_error"

C12_Witness ==
    /\ C11_Invoked
    /\ last.args.expiresInDays = Num(1)
    /\ last.sent
    /\ last.bearer = Bearer("tsk_2")

\* delete-api-key was just invoked
C13_Invoked == last.step = "invoke" /\ last.op = "deleteApiKey"

\* the backend answered the request of the invocation with status 404
C13_Answered404 ==
    last.sent /\ last.received.threw /\ last.received.message = NotFoundMessage

C14_Credential ==
    IF Held(apiKey) THEN Bearer(apiKey.token)
    ELSE IF envApiKey # "" THEN Bearer(envApiKey)
    ELSE NoHeader

C15_Privileged == KeyOps \cup {"listVaults"}
C15_Rejected ==
    /\ ~last.sent
    /\ ~last.result.success
    /\ last.result.error \in {"authentication_required", "Authentication required"}

\* C15: every privileged tool, a key tool or a resource tool, makes the same
\* decision in every session state: it rejects with the
\* authentication-required failure exactly when no valid session exists.
C15_GateUniform ==
    (last.step = "invoke" /\ last.op \in C15_Privileged)
        => (C15_Rejected <=> ~last.valid)

\* the outbound credential and the stored record are those of one update
C16_Whole ==
    /\ apiToken = (IF Held(apiKey) THEN apiKey.token ELSE NullToken)
    /\ authorization = C14_Credential

\* C16: under every interleaving of tool invocations, verify-challenge calls
\* completing, setApiKey and clearApiKey, a gate read (the start of a tool
\* invocation, or an isApiKeyValid() evaluation) never sees the outbound
\* credential of one update together with the stored record of another.
C16_GateSeesWholeUpdate ==
    last.step \in {"invoke", "isApiKeyValid"} => C16_Whole

\* a key tool passes the gate with the session of a verify-challenge that
\* completed while another verify-challenge is still in flight
C16_Witness ==
    /\ last.step = "invoke"
    /\ last.op \in KeyOps
    /\ last.sent
    /\ last.bearer = Bearer("tsk_2")
    /\ \E s \in Slots : calls[s].pc = "sent"
    /\ \E s \in Slots : calls[s].pc = "idle"

\* C17: whatever the arguments (missing or of the wrong type included) and
\* whatever the backend's outcome, an invocation of create-challenge,
\* verify-challenge, get-api-keys, create-api-key or delete-api-key ends by
\* returning a result envelope, never by throwing.
C17_NothingThrown ==
    (last.returned /\ last.op \in Ops) => ~last.result.threw

\* a failure envelope was returned by one of the five tools
C18_FailureReturned ==
    /\ last.returned
    /\ last.op \in Ops
    /\ ~last.result.threw
    /\ ~last.result.success

C18_FailedText(op) ==
    CASE op = "createChallenge" -> "Failed to create authentication challenge"
      [] op = "verifyChallenge" -> "Failed to verify authentication challenge"
      [] op = "getApiKeys" -> "Failed to retrieve API keys"
      [] op = "createApiKey" -> "Failed to create API key"
      [] OTHER -> "Failed to delete API key"

C18_Step ==
    /\ C18_FailureReturned'
          => \/ /\ last'.result.error \in {"validation_error", "authentication_required"}
                /\ last'.result.message # ""
                /\ last'.step = "invoke"
                /\ ~last'.sent
             \/ \E m \in ErrorMessages : last'.result = Failure(m, C18_FailedText(last'.op))
             \/ last'.result \in ResponseBodies(last'.op)
    /\ (/\ last'.step = "invoke"
        /\ last'.op \in Ops
        /\ last'.sent
        /\ last'.returned
        /\ last'.received.threw)
          => last'.result = Failure(last'.received.message, C18_FailedText(last'.op))
    /\ \A s \in Slots :
          (Answered(s) /\ last'.result.threw)
              => calls'[s].resp = Failure(last'.result.message, C18_FailedText("verifyChallenge"))

C19_Step ==
    /\ last'.step \in {"respondVerify", "resumeVerify"} => ~last'.sent
    /\ (calls' # calls /\ last'.step = "invoke")
          => /\ last'.sent
             /\ Cardinality({s \in Slots : calls'[s] # calls[s]}) = 1
             /\ \A s \in Slots : calls'[s] # calls[s] => calls'[s].pc = "sent"
    /\ \A s \in Slots :
          (calls[s].pc = "sent" /\ last'.step = "respondVerify" /\ last'.args = calls[s].args
             /\ calls'[s] # calls[s])
              => /\ calls'[s].pc = "client_returned"
                 /\ (last'.result.threw \/ ~last'.result.success)
                        => ~calls'[s].resp.success
    /\ (last' # last /\ last'.step = "respondVerify") => calls' # calls
    /\ \A s \in Slots :
          (calls[s].pc = "client_returned" /\ calls'[s] # calls[s])
              => /\ calls'[s] = IdleCall
                 /\ last'.returned
                 /\ last'.result = calls[s].resp
    /\ (last'.step = "invoke" /\ last'.op \in Ops \ {"verifyChallenge"} /\ last'.sent)
          => /\ last'.returned
             /\ (last'.received.threw \/ ~last'.received.success)
                    => ~last'.result.success

\* C19: one invocation of a tool issues at most one backend request; when
\* the request fails, the invocation that issued it answers with the
\* failure and sends nothing again.
C19_NoRetry == [][C19_Step]_vars

\* a verify-challenge whose request failed has returned the failure
C19_Witness ==
    /\ last.step = "resumeVerify"
    /\ last.returned
    /\ last.result.error = NotFoundMessage
    /\ \A s \in Slots : calls[s].pc = "idle"

\* the arguments of a verify-challenge are well formed
C20_WellFormed(args) ==
    /\ IsHexAddress(WalletValue(args.walletAddress))
    /\ IsText(TextValue(args.signature))
    /\ IsText(TextValue(args.nonce))

C20_Step ==
    /\ (last'.step = "invoke" /\ last'.op = "createChallenge")
          => /\ UNCHANGED StoreVars
             /\ calls' = calls
    /\ (/\ last'.step = "invoke"
        /\ last'.op = "verifyChallenge"
        /\ C20_WellFormed(last'.args))
          => /\ last'.sent
             /\ ~last'.returned
             /\ last'.bearer = authorization'

\* C20: create-challenge leaves the session store and the outbound
\* credential as they were, whatever its outcome, and a well-formed
\* verify-challenge is forwarded to the backend from every state: whether or
\* not a challenge was requested before, and also when the same wallet,
\* signature and nonce were submitted already.
C20_NoChallengeState == [][C20_Step]_vars

\* the same wallet, signature and nonce are in flight twice
C20_Witness ==
    /\ last.step = "invoke"
    /\ last.op = "verifyChallenge"
    /\ last.sent
    /\ \E s, r \in Slots :
          /\ s # r
          /\ calls[s].pc = "sent"
          /\ calls[r].pc = "sent"
          /\ calls[s].args = calls[r].args

C21_Step ==
    /\ last'.step = "getApiToken"
          => last'.ret = (IF Held(apiKey') THEN apiKey'.token ELSE NullToken)
    /\ (/\ last.step = "isApiKeyValid"
        /\ last.ret = "false"
        /\ now' = now
        /\ Held(apiKey)
        /\ last'.step = "getApiToken")
          => last'.ret = apiKey.token

\* C21: getApiToken() returns the stored token whenever one is stored, also
\* after its expiresAt has passed and after isApiKeyValid() has returned
\* false, and returns null only when no token or an empty token is stored.
C21_GetDoesNotEnforceValidity == [][C21_Step]_vars

\* the token of an expired session is handed out
C21_Witness ==
    /\ last.step = "getApiToken"
    /\ last.ret = "tsk_1"
    /\ Held(apiKey)
    /\ Lapsed(apiKey.expiresAt, now)

\* the client call the caller's arguments ask for
C22_Expected(op, args) ==
    IF op = "createChallenge" THEN <<"createChallenge", <<args.walletAddress>> >>
    ELSE IF op = "verifyChallenge"
    THEN <<"verifyChallenge", <<args.walletAddress, args.signature, args.nonce>> >>
    ELSE IF op = "getApiKeys" THEN <<"getApiKeys", <<>> >>
    ELSE IF op = "createApiKey" THEN <<"createApiKey", <<args.name, args.expiresInDays>> >>
    ELSE <<"deleteApiKey", <<args.keyId>> >>

C22_Step ==
    /\ (last'.step = "invoke" /\ last'.op \in Ops)
          => IF last'.sent
             THEN <<last'.request.method, last'.request.params>>
                     = C22_Expected(last'.op, last'.args)
             ELSE last'.request.method = ""
    /\ (last'.step = "invoke" /\ last'.op \in Ops /\ last'.sent /\ last'.returned)
          => last'.result = (IF last'.received.threw
                             THEN Failure(last'.received.message, C18_FailedText(last'.op))
                             ELSE last'.received)
    /\ \A s \in Slots :
          (calls[s].pc = "client_returned" /\ calls'[s] # calls[s])
              => /\ last'.returned
                 /\ last'.result = calls[s].resp

\* C22: a tool whose checks and gate passed calls its client method once,
\* with the caller's arguments as they were given, and returns the envelope
\* that method returned, unchanged, whether a success or a failure.
C22_PassThrough == [][C22_Step]_vars

\* create-api-key passed name and expiresInDays on and returned the failure
\* body the backend answered
C22_Witness ==
    /\ last.step = "invoke"
    /\ last.op = "createApiKey"
    /\ last.sent
    /\ last.request.params = <<"text", Num(2)>>
    /\ last.result = Envelope(FALSE, "api_error", "Backend failure", NoData)

\* the step is an invocation of check-auth-status
C23_Invoked ==
    /\ last'.step = "invoke"
    /\ last'.op = "checkAuthStatus"
    /\ (last' # last \/ now' = now)

\* n is the whole number of seconds in ms milliseconds, and 0 when ms is
\* negative
C23_WholeSeconds(n, ms) ==
    IF ms >= 0
    THEN n * MsPerSecond <= ms /\ ms < (n + 1) * MsPerSecond
    ELSE n = 0

C23_Step ==
    C23_Invoked =>
        /\ last'.result.success <=> (Held(apiKey) /\ ~Lapsed(apiKey.expiresAt, now))
        /\ ~last'.result.success =>
              /\ ~last'.result.threw
              /\ last'.result.error = "not_authenticated"
        /\ (last'.result.success /\ apiKey.expiresAt.kind = "iso") =>
              /\ last'.result.data.expiresIn.kind = "number"
              /\ last'.result.data.expiresIn.n >= 0
              /\ C23_WholeSeconds(last'.result.data.expiresIn.n,
                                  (apiKey.expiresAt.t - last'.result.data.timestamp) * TickMs)
        /\ (last'.result.success /\ apiKey.expiresAt.kind \in {"absent", "empty"}) =>
              last'.result.data.expiresIn.kind = "null"
        /\ ~last'.sent
        /\ last'.request.method = ""
        /\ UNCHANGED <<apiKey, apiToken, authorization, calls>>

\* C23: check-auth-status succeeds exactly when a token is held and its
\* expiry has not been reached, and answers not_authenticated otherwise; on
\* success expiresIn is the whole number of seconds left until expiresAt,
\* never below 0, and null for a session without expiry; no request is sent
\* and the session is left as it was.
C23_StatusReport == [][C23_Step]_vars

\* a status report whose second reading of the clock was past expiresAt:
\* expiresIn is 0
C23_Witness ==
    /\ last.step = "invoke"
    /\ last.op = "checkAuthStatus"
    /\ last.result.success
    /\ apiKey.expiresAt.kind = "iso"
    /\ last.result.data.timestamp > apiKey.expiresAt.t
    /\ last.result.data.expiresIn = Seconds(0)

\* the existence lookup of update-vault or delete-vault is answered in
\* this step
C24_LookupAnswered ==
    /\ last'.step = "respondLookup"
    /\ last'.op \in {"update-vault", "delete-vault"}
    /\ \E s \in Slots : calls[s].pc = "lookup" /\ calls'[s] # calls[s]

\* the lookup failed with HTTP status 404
C24_Status404 ==
    /\ last'.received.threw
    /\ last'.received.message = "Request failed with status code 404"

C24_Step ==
    C24_LookupAnswered =>
        /\ ~last'.received.threw =>
              /\ last'.ret = "true"
              /\ last'.sent
        /\ C24_Status404 =>
              /\ last'.ret = "false"
              /\ last'.returned
              /\ ~last'.result.success
              /\ last'.result.error = "Not found"
              /\ ~last'.sent
              /\ FreeSlots' = Slots
        /\ (last'.received.threw /\ ~C24_Status404) =>
              /\ last'.ret = "throws"
              /\ last'.returned
              /\ ~last'.result.success
              /\ last'.result.error # "Not found"
              /\ last'.result.message = last'.received.message
              /\ ~last'.sent
              /\ FreeSlots' = Slots

\* C24: vaultExists is true when the lookup succeeds, false when it fails
\* with status 404 and throws again every other failure; update-vault and
\* delete-vault then answer 'Not found' for a 404 and a failure of another
\* kind for any other failed lookup, in both cases without sending the
\* update or delete request.
C24_LookupDecides == [][C24_Step]_vars

\* a lookup that failed without a response ended update-vault with a
\* failure that is not 'Not found'
C24_Witness ==
    /\ last.step = "respondLookup"
    /\ last.op = "update-vault"
    /\ last.received.threw
    /\ last.received.message = "Network Error"
    /\ last.returned
    /\ last.result.error = "Error"

\* the token the session store gives out, "null" when it holds none
C25_StoreToken == IF Held(apiKey) THEN apiKey.token ELSE "null"

\* C25: whenever no verify-challenge is in flight, the session store and
\* the backend client hold the same token, or both hold none.
C25_TokenHoldersAgree ==
    (\A s \in Slots : calls[s].pc = "idle") => C25_StoreToken = apiToken

\* the last of the verify-challenge calls has resumed and both places hold
\* the token without expiry it was granted
C25_Witness ==
    /\ last.step = "resumeVerify"
    /\ last.result.success
    /\ \A s \in Slots : calls[s].pc = "idle"
    /\ apiToken = "tsk_2"
    /\ apiKey.token = "tsk_2"

\* C26: every request a gated resource tool sends, the first and the later
\* ones alike, is sent while a valid session exists (a token is held and
\* its expiry has not been reached), whatever happens between the requests.
C26_RequestsUnderValidSession ==
    (last.sent /\ last.op \in ResourceTools) => last.valid

C27_Step ==
    /\ apiToken' # apiToken
          => \E s \in Slots :
                /\ Answered(s)
                /\ Granted(calls'[s].resp)
                /\ apiToken' = calls'[s].resp.data.token
    /\ apiToken # "null" => apiToken' # "null"
    /\ Held(apiKey) => Held(apiKey')

\* C27: under tool invocations alone (create-challenge, verify-challenge,
\* check-auth-status, get-api-keys, create-api-key, delete-api-key, ping)
\* the installed token changes only when a verify-challenge is answered
\* with a granted session, which replaces it; no tool clears it, so a token
\* once installed stays installed.
C27_ToolsNeverClear == [][C27_Step]_vars

\* check-auth-status has reported an expired session as not authenticated
\* and its token is still installed
C27_Witness ==
    /\ last.step = "invoke"
    /\ last.op = "checkAuthStatus"
    /\ ~last.result.success
    /\ apiToken = "tsk_1"
    /\ authorization = Bearer("tsk_1")

\* the step sends the delete request of a destructive call: a permanent
\* delete-vault, delete-folder or delete-file, or a delete-file-metadata
\* without a key
C28_DestructiveDeleteSent ==
    /\ last.sent
    /\ last.request.method = "delete"
    /\ \/ last.op \in {"delete-vault", "delete-folder", "delete-file"}
             /\ last.args.permanent = "true"
       \/ last.op = "delete-file-metadata" /\ last.args.key = "missing"

\* C28: the delete request of a permanent delete-vault, delete-folder or
\* delete-file, or of a delete-file-metadata without a key, is sent only
\* for a call that carries confirmed = true.
C28_DeleteNeedsConfirmedTrue == C28_DestructiveDeleteSent => last.args.confirmed = "true"

\* a permanent deletion, confirmed with true, has got past both lookups in
\* this step: the resource exists and its name was fetched
C29_ConfirmedPastLookups ==
    /\ last.step = "respondInfo"
    /\ last.op \in {"delete-vault", "delete-folder", "delete-file"}
    /\ last.args.permanent = "true"
    /\ last.args.confirmed = "true"
    /\ ~last.received.threw

\* C29: a permanent delete-vault, delete-folder or delete-file repeated
\* with confirmed = true, for a resource that exists, sends the delete
\* request instead of answering 'Confirmation required' again.
C29_ConfirmationCompletes ==
    C29_ConfirmedPastLookups
        => /\ last.sent
           /\ last.request.method = "delete"
           /\ ~(last.returned /\ last.result.error = "Confirmation required")

\* C30: call-tool for a name that list-tools returns is never answered
\* with the 'Unknown tool' error.
C30_ListedToolsAreDispatched ==
    (last.step = "callTool" /\ last.op \in ListedTools)
        => last.result.message # "Tusky API error: Unknown tool"

====
